---- MODULE Spec2Model ----
(***************************************************************************)
(* Model of backup.py: a sequential backup orchestrator.  Seven catalog    *)
(* tasks run in a fixed order, each through try_task, which records a      *)
(* failure in the shared error list instead of propagating it; one summary *)
(* e-mail is sent at the end, and a top-level handler sends one more if    *)
(* an exception escapes do_backup_windows.                                 *)
(*                                                                         *)
(* Text is modelled as a sequence of tokens.  A token is either a single   *)
(* whitespace character or a chunk that neither starts nor ends with       *)
(* whitespace, so str.strip() is the removal of leading and trailing       *)
(* whitespace tokens.                                                      *)
(***************************************************************************)
EXTENDS Integers, Sequences, FiniteSets, TLC

(***************************************************************************)
(* Bounds of the model.                                                    *)
(***************************************************************************)
\* The run snapshots the first NumDirs entries of BACKUP_DIRS.
NumDirs == 3

(***************************************************************************)
(* Backup config (backup.py lines 15-49).                                  *)
(***************************************************************************)
BACKUP_DIRS ==
    SubSeq(<<"Documents", "Pictures", "Music", "Videos", "build",
             "AppData/Roaming", "VirtualBox VMs">>, 1, NumDirs)

EXCLUDE_PATH_PATTERNS ==
    <<"node_modules/**", ".cache/**", ".vscode/**", ".npm/**",
      ".vscode-server/**">>

EMAIL_ADDRESS == "me@example.com"

\* Path.home() and time.ctime(): fixed for one run.
home == "C:\\Users\\me"
date == "Tue Nov  3 06:00:00 2026"

\* pathlib's "/" operator followed by str(), on the Windows host.
PathJoin(a, b) == a \o "\\" \o b

(***************************************************************************)
(* Python text helpers.                                                    *)
(***************************************************************************)
Whitespace == {" ", "\t", "\n", "\r"}

RECURSIVE lstrip(_)
lstrip(s) ==
    IF s = <<>> THEN <<>>
    ELSE IF Head(s) \in Whitespace THEN lstrip(Tail(s)) ELSE s

RECURSIVE rstrip(_)
rstrip(s) ==
    IF s = <<>> THEN <<>>
    ELSE IF s[Len(s)] \in Whitespace THEN rstrip(SubSeq(s, 1, Len(s) - 1))
    ELSE s

\* str.strip()
strip(s) == rstrip(lstrip(s))

\* repr() of a list of str, as one chunk: ['git', 'add', '.'] (repr's
\* doubling of a backslash inside an item is not modelled).
RECURSIVE ReprItems(_)
ReprItems(l) ==
    IF l = <<>> THEN ""
    ELSE IF Len(l) = 1 THEN "'" \o l[1] \o "'"
    ELSE "'" \o l[1] \o "', " \o ReprItems(Tail(l))

ReprList(l) == "[" \o ReprItems(l) \o "]"

\* An entry of the error list that is a plain str.
StrObj(chars) == [type |-> "str", chars |-> chars]

\* The exception os.chdir and subprocess.Popen raise for a missing path.
FileNotFoundError(filename) ==
    [type |-> "FileNotFoundError",
     args |-> <<"2", "No such file or directory", filename>>]

\* The exception smtplib raises when the session cannot be used.
SMTPException == [type |-> "SMTPException", args |-> <<"Connection unexpectedly closed">>]

\* str(e) for the objects that reach "".join(...) and the f-string of notify.
PyStr(e) ==
    CASE e.type = "str" -> e.chars
      [] e.type = "FileNotFoundError" ->
            <<"[Errno " \o e.args[1] \o "] " \o e.args[2] \o ": '" \o e.args[3] \o "'">>
      [] OTHER -> IF e.args = <<>> THEN <<>> ELSE <<e.args[1]>>

\* "".join(str(e) for e in errors)
RECURSIVE JoinStr(_)
JoinStr(es) ==
    IF es = <<>> THEN <<>> ELSE PyStr(Head(es)) \o JoinStr(Tail(es))

(***************************************************************************)
(* gen_exclude_flags and the command lines.                                *)
(***************************************************************************)
RECURSIVE gen_exclude_flags(_)
gen_exclude_flags(patterns) ==
    IF patterns = <<>> THEN <<>>
    ELSE <<"--exclude", Head(patterns)>> \o gen_exclude_flags(Tail(patterns))

RESTIC_DEFAULT_ARGS == gen_exclude_flags(EXCLUDE_PATH_PATTERNS)

RCLONE_DEST_PATH == PathJoin(home, "backup")

RCLONE_BASE == <<"rclone", "sync", "--links">> \o gen_exclude_flags(EXCLUDE_PATH_PATTERNS)

git_add_cmd == <<"git", "add", ".">>
git_commit_cmd == <<"git", "commit", "-m", "Update " \o date>>
notes_dir == PathJoin(PathJoin(home, "Documents"), "notes")

ghidra_cmd ==
    RCLONE_BASE \o <<"ghidra:/home/ghidra",
                     PathJoin(PathJoin(RCLONE_DEST_PATH, "aws"), "ghidra"),
                     "--exclude", ".dotfiles/**">>

twitchbot_cmd ==
    RCLONE_BASE \o <<"twitchbot:/home/twitchbot",
                     PathJoin(PathJoin(RCLONE_DEST_PATH, "aws"), "twitchbot"),
                     "--exclude", ".dotfiles/**">>

choco_cmd == <<"choco", "upgrade", "all">>
apt_update_cmd == <<"wsl.exe", "sudo", "apt", "update">>
apt_upgrade_cmd == <<"wsl.exe", "sudo", "apt", "upgrade", "-y">>

\* The command line of backup_windows_dir(dir).
backup_windows_dir_cmd(dir) ==
    <<"restic">> \o RESTIC_DEFAULT_ARGS
        \o <<"backup", dir, "--use-fs-snapshot", "--tag", "Windows">>

backup_wsl_cmd ==
    <<"wsl.exe", "--shell-type", "none", "/home/alex/.local/bin/restic",
      "backup", "/home/alex", "--tag", "WSL">> \o RESTIC_DEFAULT_ARGS

restic_check_cmd == <<"restic", "check">>

(***************************************************************************)
(* The environment: how a subprocess and a mail session can end.           *)
(***************************************************************************)
\* The programs the run starts.
Programs == {"git", "rclone", "choco", "wsl.exe", "restic"}

\* How each program ends when it fails: its return code and raw output streams.
Failure(prog) ==
    CASE prog = "git" ->
            [spawned |-> TRUE, returncode |-> 128, stdout |-> <<>>,
             stderr |-> <<"fatal: not a git repository", "\n">>]
      [] prog = "rclone" ->
            [spawned |-> TRUE, returncode |-> 1, stdout |-> <<>>, stderr |-> <<>>]
      [] prog = "choco" ->
            [spawned |-> TRUE, returncode |-> 1,
             stdout |-> <<"Chocolatey upgraded 0/1 packages.", "\n">>,
             stderr |-> <<>>]
      [] prog = "wsl.exe" ->
            [spawned |-> TRUE, returncode |-> 100, stdout |-> <<"Reading package lists...">>,
             stderr |-> <<" ", "E: Could not get lock", "\n">>]
      [] OTHER ->
            [spawned |-> TRUE, returncode |-> 1, stdout |-> <<>>, stderr |-> <<>>]

\* What Popen/communicate can yield for a program: it cannot be started
\* (it is not installed), or it runs and exits with a return code and two
\* raw output streams.
ProcOutcomes(prog, notInstalled) ==
    IF prog \in notInstalled
    THEN { [spawned |-> FALSE] }
    ELSE { [spawned |-> TRUE, returncode |-> 0, stdout |-> <<" ", "done", "\n">>,
            stderr |-> <<>>],
           Failure(prog) }

\* Whether os.chdir finds the notes directory; whether the mail session works.
BoolOutcomes == {TRUE, FALSE}

None == [type |-> "None"]

(***************************************************************************)
(* class ShellError, sh, notify, try_task.                                 *)
(***************************************************************************)
ShellError(msg) == [type |-> "ShellError", msg |-> msg]

\* Variant of ShellErrorMsg: the message leaves the standard error out.
ShellErrorMsg_NoStderr(args, returncode, stdout, stderr) ==
    <<"[script] Failed to run command: " \o ReprList(args), "\n",
      "[script] Return code: " \o ToString(returncode), "\n", "\n",
      "[script] Stdout:", "\n">> \o stdout

\* The message sh builds on a checked non-zero exit (lines 95-100).
ShellErrorMsg(args, returncode, stdout, stderr) ==
    <<"[script] Failed to run command: " \o ReprList(args), "\n",
      "[script] Return code: " \o ToString(returncode), "\n", "\n",
      "[script] Stdout:", "\n">> \o stdout
        \o <<"\n", "[script] Stderr:", "\n">> \o stderr

\* Variant of sh: the check flag is ignored, every non-zero exit raises.
sh_IgnoresCheck(cmd, check, o) ==
    IF ~o.spawned
    THEN [exc |-> FileNotFoundError(cmd[1]), ret |-> <<>>]
    ELSE IF o.returncode # 0
    THEN [exc |-> ShellError(ShellErrorMsg(cmd, o.returncode, strip(o.stdout),
                                           strip(o.stderr))),
          ret |-> <<>>]
    ELSE [exc |-> None, ret |-> strip(o.stdout)]

\* sh(cmd, check) when the subprocess ends as o: the exception raised (None
\* if none) and the value returned.
sh(cmd, check, o) ==
    IF ~o.spawned
    THEN [exc |-> FileNotFoundError(cmd[1]), ret |-> <<>>]
    ELSE LET stdout == strip(o.stdout)
             stderr == strip(o.stderr)
         IN  IF check /\ o.returncode # 0
             THEN [exc |-> ShellError(ShellErrorMsg(cmd, o.returncode, stdout, stderr)),
                   ret |-> <<>>]
             ELSE [exc |-> None, ret |-> stdout]

\* Variant of try_task: the exception is recorded and raised again.
try_task_Reraises(exc, error_list) ==
    IF exc = None
    THEN [error_list |-> error_list, reraised |-> None]
    ELSE [error_list |-> Append(error_list,
                                IF exc.type = "ShellError" THEN StrObj(exc.msg) ELSE exc),
          reraised |-> exc]

\* Variant of try_task: the list is assigned the new entry instead of
\* being appended to.
try_task_Overwrites(exc, error_list) ==
    IF exc = None
    THEN [error_list |-> error_list, reraised |-> None]
    ELSE [error_list |-> <<IF exc.type = "ShellError" THEN StrObj(exc.msg) ELSE exc>>,
          reraised |-> None]

\* try_task(task_func, error_list) when task_func() ends with exception exc
\* (None: it returned): the error list afterwards and the exception that
\* leaves try_task.
try_task(exc, error_list) ==
    IF exc = None
    THEN [error_list |-> error_list, reraised |-> None]
    ELSE IF exc.type = "ShellError"
    THEN [error_list |-> Append(error_list, StrObj(exc.msg)), reraised |-> None]
    ELSE [error_list |-> Append(error_list, exc), reraised |-> None]

\* notify(subject, msg) when the mail session works (ok) or not: the message
\* handed to sendmail and the exception raised.
notify(subject, msg, ok) ==
    [sender |-> EMAIL_ADDRESS, rcpt |-> EMAIL_ADDRESS,
     subject |-> subject, msg |-> PyStr(msg),
     message |-> <<"Subject: " \o subject, "\n", "\n">> \o PyStr(msg),
     delivered |-> ok,
     exc |-> IF ok THEN None ELSE SMTPException]

\* Variant of SummarySubject: the success test is len(errors) <= 1.
SummarySubject_OffByOne(errs) ==
    IF Len(errs) <= 1 THEN "Backup succeeded"
    ELSE "Backup failed! " \o ToString(Len(errs)) \o " error"
             \o (IF Len(errs) = 1 THEN "" ELSE "s")

\* Variant of SummaryMsg: "".join(str(e).strip() for e in errors)
RECURSIVE JoinStripped(_)
JoinStripped(es) ==
    IF es = <<>> THEN <<>> ELSE strip(PyStr(Head(es))) \o JoinStripped(Tail(es))

SummaryMsg_StripsEach(errs) ==
    IF Len(errs) = 0 THEN StrObj(<<"Hope you're having a nice day :)">>)
    ELSE StrObj(JoinStripped(errs))

\* Lines 246-251: the subject and the body of the summary.
SummarySubject(errs) ==
    IF Len(errs) = 0 THEN "Backup succeeded"
    ELSE "Backup failed! " \o ToString(Len(errs)) \o " error"
             \o (IF Len(errs) = 1 THEN "" ELSE "s")

SummaryMsg(errs) ==
    IF Len(errs) = 0 THEN StrObj(<<"Hope you're having a nice day :)">>)
    ELSE StrObj(strip(JoinStr(errs)))

\* Variant of Shuffles: a sample with replacement (random.choices).
Shuffles_WithReplacement(l) == [1..Len(l) -> {l[i] : i \in 1..Len(l)}]

\* random.shuffle: any ordering of the list.
Shuffles(l) ==
    { p \in [1..Len(l) -> {l[i] : i \in 1..Len(l)}] :
        \A i, j \in 1..Len(l) : i # j => p[i] # p[j] }

(***************************************************************************)
(* State of one run.                                                       *)
(***************************************************************************)
VARIABLES
    pc,             \* the statement about to run
    errors,         \* do_backup_windows' error list
    shuffled_dirs,  \* backup_c_drive's shuffled copy of BACKUP_DIRS
    dir_idx,        \* position of backup_c_drive's for loop in shuffled_dirs
    escaped,        \* the exception that left do_backup_windows (None if none)
    notifs,         \* history: the calls of notify, in order
    started,        \* history: the catalog tasks started, in order
    cmdlog,         \* history: how often each command line was handed to sh
    lastSh,         \* history: the latest call of sh and how it ended
    attempted,      \* history: how often each path was handed to backup_windows_dir
    failed,         \* history: the tasks whose function raised, and with what
    missing         \* environment: the programs that are not installed

vars == <<pc, errors, shuffled_dirs, dir_idx, escaped, notifs, started, cmdlog,
          lastSh, attempted, failed, missing>>

NoCall == [cmd |-> <<>>, check |-> TRUE, outcome |-> [spawned |-> FALSE],
           exc |-> None, ret |-> <<>>]

Init ==
    /\ pc = "commit_notes"
    /\ errors = <<>>
    /\ shuffled_dirs = <<>>
    /\ dir_idx = 0
    /\ escaped = None
    /\ notifs = <<>>
    /\ started = <<>>
    /\ cmdlog = [c \in {} |-> 0]
    /\ lastSh = NoCall
    /\ attempted = [c \in {} |-> 0]
    /\ failed = <<>>
    /\ missing \in SUBSET Programs

(***************************************************************************)
(* Building blocks of the actions.                                         *)
(***************************************************************************)
\* A history count with one more occurrence of x.
Tally(count, x) ==
    IF x \in DOMAIN count THEN [count EXCEPT ![x] = @ + 1] ELSE count @@ (x :> 1)

\* try_task(task) returns or raises after task(arg) ended with exc; the run
\* goes on at `after` unless try_task let an exception out.
TryTaskEnds(task, arg, exc, after) ==
    LET t == try_task(exc, errors) IN
    /\ errors' = t.error_list
    /\ failed' = IF exc = None THEN failed
                 ELSE Append(failed, [task |-> task, arg |-> arg, exc |-> exc])
    /\ IF t.reraised = None
       THEN pc' = after /\ escaped' = escaped
       ELSE pc' = "__main__.except" /\ escaped' = t.reraised

\* Variant of ShStep: the failure is recorded and the task goes on with
\* its next statement.
ShStep_GoesOn(task, arg, cmd, check, next, after) ==
    \E o \in ProcOutcomes(cmd[1], missing) :
        /\ UNCHANGED missing
        /\ LET r == sh(cmd, check, o) IN
           /\ lastSh' = [cmd |-> cmd, check |-> check, outcome |-> o,
                         exc |-> r.exc, ret |-> r.ret]
           /\ cmdlog' = Tally(cmdlog, cmd)
           /\ IF r.exc = None /\ next # after
              THEN /\ pc' = next
                   /\ UNCHANGED <<errors, failed, escaped>>
              ELSE TryTaskEnds(task, arg, r.exc, next)

\* One call sh(cmd, check) inside task(arg): on an exception the task ends in
\* try_task and the run goes on at `after`; otherwise the task goes on at
\* `next` (its next statement), or returns when next = after.
ShStep(task, arg, cmd, check, next, after) ==
    \E o \in ProcOutcomes(cmd[1], missing) :
        /\ UNCHANGED missing
        /\ LET r == sh(cmd, check, o) IN
           /\ lastSh' = [cmd |-> cmd, check |-> check, outcome |-> o,
                         exc |-> r.exc, ret |-> r.ret]
           /\ cmdlog' = Tally(cmdlog, cmd)
           /\ IF r.exc = None /\ next # after
              THEN /\ pc' = next
                   /\ UNCHANGED <<errors, failed, escaped>>
              ELSE TryTaskEnds(task, arg, r.exc, after)

Begin(task) == started' = Append(started, task)

(***************************************************************************)
(* The catalog tasks, in the order of do_backup_windows (lines 238-244).   *)
(***************************************************************************)
\* commit_notes: os.chdir(notes directory)
CommitNotesChdir ==
    /\ pc = "commit_notes"
    /\ Begin("commit_notes")
    /\ \E found \in BoolOutcomes :
        IF found
        THEN /\ pc' = "commit_notes.add"
             /\ UNCHANGED <<errors, failed, escaped>>
        ELSE TryTaskEnds("commit_notes", "", FileNotFoundError(notes_dir), "backup_aws")
    /\ UNCHANGED <<shuffled_dirs, dir_idx, notifs, cmdlog, lastSh, attempted, missing>>

\* commit_notes: sh(["git", "add", "."])
CommitNotesAdd ==
    /\ pc = "commit_notes.add"
    /\ ShStep("commit_notes", "", git_add_cmd, TRUE, "commit_notes.commit", "backup_aws")
    /\ UNCHANGED <<shuffled_dirs, dir_idx, notifs, started, attempted>>

\* commit_notes: sh(["git", "commit", ...], check=False)
CommitNotesCommit ==
    /\ pc = "commit_notes.commit"
    /\ ShStep("commit_notes", "", git_commit_cmd, FALSE, "backup_aws", "backup_aws")
    /\ UNCHANGED <<shuffled_dirs, dir_idx, notifs, started, attempted>>

\* backup_aws: sh(ghidra_cmd)
BackupAwsGhidra ==
    /\ pc = "backup_aws"
    /\ Begin("backup_aws")
    /\ ShStep("backup_aws", "", ghidra_cmd, TRUE, "backup_aws.twitchbot", "choco_upgrade")
    /\ UNCHANGED <<shuffled_dirs, dir_idx, notifs, attempted>>

\* backup_aws: sh(twitchbot_cmd)
BackupAwsTwitchbot ==
    /\ pc = "backup_aws.twitchbot"
    /\ ShStep("backup_aws", "", twitchbot_cmd, TRUE, "choco_upgrade", "choco_upgrade")
    /\ UNCHANGED <<shuffled_dirs, dir_idx, notifs, started, attempted>>

\* choco_upgrade
ChocoUpgrade ==
    /\ pc = "choco_upgrade"
    /\ Begin("choco_upgrade")
    /\ ShStep("choco_upgrade", "", choco_cmd, TRUE, "wsl_upgrade", "wsl_upgrade")
    /\ UNCHANGED <<shuffled_dirs, dir_idx, notifs, attempted>>

\* wsl_upgrade: apt update
WslUpgradeUpdate ==
    /\ pc = "wsl_upgrade"
    /\ Begin("wsl_upgrade")
    /\ ShStep("wsl_upgrade", "", apt_update_cmd, TRUE, "wsl_upgrade.upgrade", "backup_c_drive")
    /\ UNCHANGED <<shuffled_dirs, dir_idx, notifs, attempted>>

\* wsl_upgrade: apt upgrade -y
WslUpgradeUpgrade ==
    /\ pc = "wsl_upgrade.upgrade"
    /\ ShStep("wsl_upgrade", "", apt_upgrade_cmd, TRUE, "backup_c_drive", "backup_c_drive")
    /\ UNCHANGED <<shuffled_dirs, dir_idx, notifs, started, attempted>>

\* backup_c_drive: copy and shuffle BACKUP_DIRS
BackupCDriveShuffle ==
    /\ pc = "backup_c_drive"
    /\ Begin("backup_c_drive")
    /\ \E p \in Shuffles(BACKUP_DIRS) : shuffled_dirs' = p
    /\ dir_idx' = 1
    /\ pc' = "backup_c_drive.for"
    /\ UNCHANGED <<errors, escaped, notifs, cmdlog, lastSh, attempted, failed, missing>>

\* backup_c_drive: one iteration, try_task(lambda: backup_windows_dir(source_path))
BackupCDriveDir ==
    /\ pc = "backup_c_drive.for"
    /\ dir_idx <= Len(shuffled_dirs)
    /\ LET source_path == PathJoin(home, shuffled_dirs[dir_idx]) IN
        /\ attempted' = Tally(attempted, source_path)
        /\ ShStep("backup_windows_dir", source_path,
                  backup_windows_dir_cmd(source_path), TRUE,
                  "backup_c_drive.for", "backup_c_drive.for")
    /\ dir_idx' = dir_idx + 1
    /\ UNCHANGED <<shuffled_dirs, notifs, started>>

\* backup_c_drive: the loop is over, the function returns to its try_task
\* and its locals are gone
BackupCDriveReturn ==
    /\ pc = "backup_c_drive.for"
    /\ dir_idx > Len(shuffled_dirs)
    /\ TryTaskEnds("backup_c_drive", "", None, "backup_wsl")
    /\ shuffled_dirs' = <<>>
    /\ dir_idx' = 0
    /\ UNCHANGED <<notifs, started, cmdlog, lastSh, attempted, missing>>

\* backup_wsl
BackupWsl ==
    /\ pc = "backup_wsl"
    /\ Begin("backup_wsl")
    /\ ShStep("backup_wsl", "", backup_wsl_cmd, TRUE, "check_restic_integrity",
              "check_restic_integrity")
    /\ UNCHANGED <<shuffled_dirs, dir_idx, notifs, attempted>>

\* check_restic_integrity
CheckResticIntegrity ==
    /\ pc = "check_restic_integrity"
    /\ Begin("check_restic_integrity")
    /\ ShStep("check_restic_integrity", "", restic_check_cmd, TRUE, "report", "report")
    /\ UNCHANGED <<shuffled_dirs, dir_idx, notifs, attempted>>

(***************************************************************************)
(* The summary (lines 246-252) and the top-level handler (lines 255-259).  *)
(***************************************************************************)
Report ==
    /\ pc = "report"
    /\ \E ok \in BoolOutcomes :
        LET n == notify(SummarySubject(errors), SummaryMsg(errors), ok) IN
        /\ notifs' = Append(notifs, [by |-> "do_backup_windows"] @@ n)
        /\ IF n.exc = None
           THEN pc' = "exit" /\ escaped' = escaped
           ELSE pc' = "__main__.except" /\ escaped' = n.exc
    /\ UNCHANGED <<errors, shuffled_dirs, dir_idx, started, cmdlog, lastSh,
                   attempted, failed, missing>>

\* Variant of MainExcept: the handler passes without notifying.
MainExcept_Passes ==
    /\ pc = "__main__.except"
    /\ pc' = "exit"
    /\ UNCHANGED <<errors, shuffled_dirs, dir_idx, escaped, notifs, started, cmdlog,
                   lastSh, attempted, failed, missing>>

\* Variant of MainExcept: a failed attempt is tried once more.
MainExcept_Retries ==
    /\ pc = "__main__.except"
    /\ \E ok \in BoolOutcomes :
        LET n == notify("Backup failed: 1 error", escaped, ok) IN
        /\ notifs' = Append(notifs, [by |-> "__main__"] @@ n)
        /\ pc' = IF n.exc = None THEN "exit"
                 ELSE IF Len(notifs) < 2 THEN "__main__.except" ELSE "traceback"
    /\ UNCHANGED <<errors, shuffled_dirs, dir_idx, escaped, started, cmdlog,
                   lastSh, attempted, failed, missing>>

MainExcept ==
    /\ pc = "__main__.except"
    /\ \E ok \in BoolOutcomes :
        LET n == notify("Backup failed: 1 error", escaped, ok) IN
        /\ notifs' = Append(notifs, [by |-> "__main__"] @@ n)
        /\ pc' = IF n.exc = None THEN "exit" ELSE "traceback"
    /\ UNCHANGED <<errors, shuffled_dirs, dir_idx, escaped, started, cmdlog,
                   lastSh, attempted, failed, missing>>

Next ==
    \/ CommitNotesChdir
    \/ CommitNotesAdd
    \/ CommitNotesCommit
    \/ BackupAwsGhidra
    \/ BackupAwsTwitchbot
    \/ ChocoUpgrade
    \/ WslUpgradeUpdate
    \/ WslUpgradeUpgrade
    \/ BackupCDriveShuffle
    \/ BackupCDriveDir
    \/ BackupCDriveReturn
    \/ BackupWsl
    \/ CheckResticIntegrity
    \/ Report
    \/ MainExcept

Spec == Init /\ [][Next]_vars

\* The process is over: it exited normally or died with a traceback.
Ended == pc \in {"exit", "traceback"}

(***************************************************************************)
(* Vocabulary of the properties.                                           *)
(***************************************************************************)
TaskOrder ==
    <<"commit_notes", "backup_aws", "choco_upgrade", "wsl_upgrade",
      "backup_c_drive", "backup_wsl", "check_restic_integrity">>

IsPrefix(s, t) == Len(s) <= Len(t) /\ s = SubSeq(t, 1, Len(s))

Last(s) == s[Len(s)]

\* The text of a failure: a ShellError's message, else str() of the exception.
FailureText(exc) == IF exc.type = "ShellError" THEN exc.msg ELSE PyStr(exc)

RECURSIVE FailureTexts(_)
FailureTexts(fs) ==
    IF fs = <<>> THEN <<>> ELSE FailureText(Head(fs).exc) \o FailureTexts(Tail(fs))

RECURSIVE StrippedFailureTexts(_)
StrippedFailureTexts(fs) ==
    IF fs = <<>> THEN <<>>
    ELSE strip(FailureText(Head(fs).exc)) \o StrippedFailureTexts(Tail(fs))

\* The notifications do_backup_windows / the top-level handler attempted.
Summaries == {i \in DOMAIN notifs : notifs[i].by = "do_backup_windows"}
HandlerMails == {i \in DOMAIN notifs : notifs[i].by = "__main__"}

\* How often `task` is in the failure history; how often the backup of a path.
TimesFailed(task) == Cardinality({i \in DOMAIN failed : failed[i].task = task})
TimesDirFailed(dir) ==
    Cardinality({i \in DOMAIN failed :
                    failed[i].task = "backup_windows_dir" /\ failed[i].arg = dir})

\* The error list holds exactly the failures, in the order they occurred:
\* for a ShellError its message, as a str, else the exception itself.
ErrorsAreTheFailures ==
    /\ Len(errors) = Len(failed)
    /\ \A i \in DOMAIN failed :
          IF failed[i].exc.type = "ShellError"
          THEN errors[i].type = "str" /\ errors[i].chars = failed[i].exc.msg
          ELSE errors[i] = failed[i].exc

\* The command line was handed to sh.
Ran(cmd) == cmd \in DOMAIN cmdlog

\* The first line of the message of a ShellError for a command line.
FailedLine(cmd) == "[script] Failed to run command: " \o ReprList(cmd)
GhidraFailedLine == FailedLine(ghidra_cmd)
AptUpdateFailedLine == FailedLine(apt_update_cmd)
GitAddFailedLine == FailedLine(git_add_cmd)

\* The call of `task` that starts prog and whose ShellError starts with `line`
\* raised.
Raised(task, prog, line) ==
    \E i \in DOMAIN failed :
        /\ failed[i].task = task
        /\ \/ failed[i].exc = FileNotFoundError(prog)
           \/ /\ failed[i].exc.type = "ShellError"
              /\ failed[i].exc.msg[1] = line

GhidraRaised == Raised("backup_aws", "rclone", GhidraFailedLine)
AptUpdateRaised == Raised("wsl_upgrade", "wsl.exe", AptUpdateFailedLine)
GitAddRaised == Raised("commit_notes", "git", GitAddFailedLine)

\* backup_c_drive's loop is over.
AfterCDrive == "backup_wsl" \in {started[i] : i \in DOMAIN started} \/ pc = "backup_wsl"

SourcePaths == {PathJoin(home, BACKUP_DIRS[i]) : i \in DOMAIN BACKUP_DIRS}

(***************************************************************************)
(* C1.  Every run makes exactly one notification attempt, or two when the  *)
(* first attempt raised: never more than two, a second one only after the  *)
(* first raised, and a run that has ended has made at least one, and two   *)
(* if the first raised.                                                    *)
(***************************************************************************)
C1_OneOrTwoNotifications ==
    /\ Len(notifs) <= 2
    /\ Len(notifs) = 2 => notifs[1].exc # None
    /\ Ended => /\ Len(notifs) >= 1
                /\ notifs[1].exc # None => Len(notifs) = 2

\* A run with failed tasks whose summary could not be sent has ended after
\* a second attempt.
C1_Witness ==
    Ended /\ Len(notifs) = 2 /\ notifs[1].exc # None /\ Len(errors) >= 2

(***************************************************************************)
(* C2.  The catalog tasks start in the fixed order, each at most once;     *)
(* once a notification is attempted or the run has ended all seven were    *)
(* started exactly once and the latest command run is the one of           *)
(* check_restic_integrity, whichever tasks failed.                         *)
(***************************************************************************)
C2_FixedOrderBeforeNotify ==
    /\ IsPrefix(started, TaskOrder)
    /\ (notifs # <<>> \/ Ended \/ pc = "report") =>
          /\ started = TaskOrder
          /\ lastSh.cmd = restic_check_cmd
          /\ Ran(restic_check_cmd)

\* All seven tasks were started although the first, the second and the
\* fourth failed, and the summary is about to be attempted.
C2_Witness ==
    /\ pc = "report"
    /\ started = TaskOrder
    /\ TimesFailed("commit_notes") = 1
    /\ TimesFailed("backup_aws") = 1
    /\ TimesFailed("wsl_upgrade") = 1

(***************************************************************************)
(* C3.  When N >= 1 tasks failed (each directory backup counting as a      *)
(* task), the summary's subject is "Backup failed! 1 error" for N = 1 and  *)
(* "Backup failed! N errors" for N >= 2, and its body is the concatenation *)
(* of the failures' texts in the order they occurred, stripped of leading  *)
(* and trailing whitespace (stripped as a whole, not text by text).        *)
(***************************************************************************)
C3_FailureSummary ==
    \A i \in Summaries :
        Len(failed) >= 1 =>
            /\ notifs[i].subject =
                  IF Len(failed) = 1 THEN "Backup failed! 1 error"
                  ELSE "Backup failed! " \o ToString(Len(failed)) \o " errors"
            /\ notifs[i].msg = strip(FailureTexts(failed))
            /\ notifs[i].message =
                  <<"Subject: " \o notifs[i].subject, "\n", "\n">>
                      \o strip(FailureTexts(failed))

\* A summary of three or more failures, among them a ShellError and an
\* exception that is none, where stripping text by text would have given
\* another body.
C3_Witness ==
    /\ Summaries # {}
    /\ Len(failed) >= 3
    /\ \E i, j \in DOMAIN failed :
          failed[i].exc.type = "ShellError" /\ failed[j].exc.type # "ShellError"
    /\ StrippedFailureTexts(failed) # strip(FailureTexts(failed))

(***************************************************************************)
(* C4.  The summary has the success subject and the success body if and    *)
(* only if no task failed, which is when the error list is empty; with a   *)
(* recorded failure the success subject is not used.                       *)
(***************************************************************************)
C4_SuccessIffNoFailure ==
    \A i \in Summaries :
        /\ (notifs[i].subject = "Backup succeeded") <=> (failed = <<>>)
        /\ (notifs[i].msg = <<"Hope you're having a nice day :)">>) <=> (failed = <<>>)
        /\ (failed = <<>>) <=> (errors = <<>>)
        /\ errors # <<>> => notifs[i].subject # "Backup succeeded"

\* A success summary was sent.
C4_Witness ==
    /\ Summaries # {}
    /\ notifs[1].subject = "Backup succeeded"
    /\ notifs[1].delivered
    /\ errors = <<>>
    /\ pc = "exit"

(***************************************************************************)
(* C5.  In commit_notes a non-zero exit of "git commit" adds no error      *)
(* entry, while a non-zero exit of "git add" adds exactly one entry and    *)
(* "git commit" is then not run.                                           *)
(***************************************************************************)
C5_CommitNotesExitCodes ==
    LET ran == lastSh.outcome.spawned /\ lastSh.outcome.returncode # 0 IN
    /\ (pc = "backup_aws" /\ lastSh.cmd = git_commit_cmd /\ ran) =>
          /\ errors = <<>>
          /\ DOMAIN cmdlog = {git_add_cmd, git_commit_cmd}
    /\ (pc = "backup_aws" /\ lastSh.cmd = git_add_cmd /\ ran) =>
          /\ Len(errors) = 1
          /\ errors[1].type = "str"
          /\ DOMAIN cmdlog = {git_add_cmd}
    /\ Ran(git_commit_cmd) => Ran(git_add_cmd) /\ ~GitAddRaised
    /\ (TimesFailed("commit_notes") = 1 /\ failed[1].exc.type = "ShellError") =>
          ~Ran(git_commit_cmd)

\* "git commit" has just exited with a non-zero code and the error list is
\* empty.
C5_Witness ==
    /\ pc = "backup_aws"
    /\ lastSh.cmd = git_commit_cmd
    /\ lastSh.outcome.spawned
    /\ lastSh.outcome.returncode # 0
    /\ errors = <<>>

(***************************************************************************)
(* C6.  Whatever the shuffle order and whichever directory backups fail,   *)
(* backup_windows_dir is attempted on every directory of BACKUP_DIRS       *)
(* exactly once: no path is attempted twice, only paths of BACKUP_DIRS are *)
(* attempted, after the loop all of them were, and each failing directory  *)
(* has exactly one entry in the error list.                                *)
(***************************************************************************)
C6_EveryDirectoryOnce ==
    /\ \A d \in DOMAIN attempted : attempted[d] = 1
    /\ DOMAIN attempted \subseteq SourcePaths
    /\ pc = "backup_c_drive.for" =>
          DOMAIN attempted = {PathJoin(home, shuffled_dirs[i]) : i \in 1..(dir_idx - 1)}
    /\ AfterCDrive => DOMAIN attempted = SourcePaths
    /\ \A d \in SourcePaths : TimesDirFailed(d) <= 1
    /\ ErrorsAreTheFailures
    /\ TimesFailed("backup_c_drive") = 0

\* The loop has just ended; the directories were attempted in another order
\* than BACKUP_DIRS lists them, the first one attempted failed and the last
\* one succeeded.
C6_Witness ==
    /\ pc = "backup_c_drive.for"
    /\ dir_idx > Len(shuffled_dirs)
    /\ DOMAIN attempted = SourcePaths
    /\ shuffled_dirs[1] # BACKUP_DIRS[1]
    /\ TimesDirFailed(PathJoin(home, shuffled_dirs[1])) = 1
    /\ TimesDirFailed(PathJoin(home, shuffled_dirs[Len(shuffled_dirs)])) = 0

(***************************************************************************)
(* C7.  The top-level handler attempts a notification exactly when an      *)
(* exception left do_backup_windows: exactly one attempt, with the subject *)
(* "Backup failed: 1 error"; if that attempt raises the process dies with  *)
(* no notification delivered and no further attempt.  When                 *)
(* do_backup_windows returns normally the handler sends nothing.           *)
(***************************************************************************)
C7_TopLevelHandler ==
    /\ Cardinality(HandlerMails) <= 1
    /\ \A i \in HandlerMails :
          /\ notifs[i].subject = "Backup failed: 1 error"
          /\ escaped # None
          /\ notifs[i].msg = PyStr(escaped)
    /\ (Ended /\ escaped # None) => Cardinality(HandlerMails) = 1
    /\ escaped = None => HandlerMails = {}
    /\ (Ended /\ escaped = None) => pc = "exit"
    /\ pc = "traceback" =>
          /\ escaped # None
          /\ \A i \in DOMAIN notifs : ~notifs[i].delivered
    /\ (Ended /\ \E i \in HandlerMails : ~notifs[i].delivered) => pc = "traceback"

\* The summary could not be sent, the handler's attempt failed too, and
\* the process died without a delivered notification.
C7_Witness ==
    /\ pc = "traceback"
    /\ Len(notifs) = 2
    /\ notifs[1].by = "do_backup_windows"
    /\ notifs[2].by = "__main__"
    /\ notifs[2].subject = "Backup failed: 1 error"

\* Part of C8: a step leaves the error list as it is or appends one entry.
C8_ErrorsGrowByOne ==
    \/ errors' = errors
    \/ /\ Len(errors') = Len(errors) + 1
       /\ SubSeq(errors', 1, Len(errors)) = errors
       /\ Len(failed') = Len(failed) + 1

\* Part of C8: only a failed notification leaves do_backup_windows, and the
\* error list holds, failure by failure, the ShellError's message (a str) or
\* the exception itself.
C8_TaskFailuresStay ==
    /\ escaped \in {None, SMTPException}
    /\ escaped # None => Summaries # {}
    /\ pc = "__main__.except" => Summaries # {}
    /\ ErrorsAreTheFailures

(***************************************************************************)
(* C8.  try_task never lets a task's failure out: no exception of a task   *)
(* reaches the top-level handler.  A ShellError puts its message into the  *)
(* error list, any other failure puts the exception itself there, a        *)
(* success puts nothing.  Every step leaves the list as it is or appends   *)
(* one entry to it, so the list is never cleared and only grows.           *)
(***************************************************************************)
C8_TryTaskRecordsAndContinues ==
    [](C8_TaskFailuresStay) /\ [][C8_ErrorsGrowByOne]_vars

\* After a ShellError and another exception were recorded, a task succeeds
\* and the list stays as it was.
C8_Witness ==
    /\ Len(errors) = 2
    /\ errors[1].type = "FileNotFoundError"
    /\ errors[2].type = "str"
    /\ Len(started) = 4
    /\ pc = "backup_c_drive"
    /\ lastSh.exc = None

\* The message C9 expects for the latest call of sh.
C9_ExpectedMsg ==
    <<"[script] Failed to run command: " \o ReprList(lastSh.cmd), "\n",
      "[script] Return code: " \o ToString(lastSh.outcome.returncode),
      "\n", "\n", "[script] Stdout:", "\n">>
        \o strip(lastSh.outcome.stdout)
        \o <<"\n", "[script] Stderr:", "\n">>
        \o strip(lastSh.outcome.stderr)

\* The latest call of sh had failure checking on and a non-zero exit code.
C9_CheckedNonZero ==
    lastSh.outcome.spawned /\ lastSh.check /\ lastSh.outcome.returncode # 0

(***************************************************************************)
(* C9 as stated.  sh raises a ShellError if and only if failure checking   *)
(* is on and the exit code is not zero, and otherwise returns the captured *)
(* standard output; after a checked command exited non-zero the newest     *)
(* entry of the error list is the message with the command, the return     *)
(* code and both output streams.                                           *)
(***************************************************************************)
C9_AsStated ==
    lastSh.cmd # <<>> =>
        /\ (lastSh.exc.type = "ShellError") <=> C9_CheckedNonZero
        /\ ~C9_CheckedNonZero =>
              /\ lastSh.exc = None
              /\ lastSh.ret = strip(lastSh.outcome.stdout)
        /\ C9_CheckedNonZero =>
              /\ errors # <<>>
              /\ Last(errors) = [type |-> "str", chars |-> C9_ExpectedMsg]

(***************************************************************************)
(* C9 as amended.  sh raises a ShellError if and only if the program ran,  *)
(* failure checking is on and the exit code is not zero; when the program  *)
(* ran without that, sh returns the stripped standard output; when the     *)
(* program could not be started, sh raises the start-up error, which is no *)
(* ShellError and which try_task records as it is.  After a checked        *)
(* command exited non-zero the newest entry of the error list is the       *)
(* message with the command, the return code and both output streams.      *)
(***************************************************************************)
C9_ShellErrorIffCheckedNonZero ==
    lastSh.cmd # <<>> =>
        /\ (lastSh.exc.type = "ShellError") <=> C9_CheckedNonZero
        /\ (lastSh.outcome.spawned /\ ~C9_CheckedNonZero) =>
              /\ lastSh.exc = None
              /\ lastSh.ret = strip(lastSh.outcome.stdout)
        /\ ~lastSh.outcome.spawned =>
              /\ lastSh.exc.type = "FileNotFoundError"
              /\ errors # <<>>
              /\ Last(errors) = lastSh.exc
        /\ C9_CheckedNonZero =>
              /\ errors # <<>>
              /\ Last(errors) = [type |-> "str", chars |-> C9_ExpectedMsg]

\* With one program not installed and its start-up error in the list, a
\* checked command exited non-zero with text on both streams that sh had to
\* strip, and its message is the newest entry.
C9_Witness ==
    /\ lastSh.cmd = apt_upgrade_cmd
    /\ lastSh.check
    /\ lastSh.outcome.spawned
    /\ lastSh.outcome.returncode = 100
    /\ strip(lastSh.outcome.stderr) # lastSh.outcome.stderr
    /\ lastSh.exc.type = "ShellError"
    /\ \E i \in DOMAIN errors : errors[i] = FileNotFoundError("choco")
    /\ Last(errors).chars = lastSh.exc.msg

\* The place in the catalog of the task a failure belongs to, a directory
\* backup belonging to backup_c_drive.
RECURSIVE Position(_, _)
Position(task, order) ==
    IF order = <<>> \/ Head(order) = task THEN 1 ELSE 1 + Position(task, Tail(order))

FailureRank(f) ==
    IF f.task = "backup_windows_dir" THEN Position("backup_c_drive", TaskOrder)
    ELSE Position(f.task, TaskOrder)

(***************************************************************************)
(* C10.  In a task of several commands the first failing checked command   *)
(* ends the task: after a failed ghidra sync the twitchbot sync is not     *)
(* run, after a failed apt update apt upgrade is not run, after a failed   *)
(* git add git commit is not run.  Every catalog task fails at most once   *)
(* per run, backup_c_drive itself never, so the error list holds at most   *)
(* 6 + |BACKUP_DIRS| entries (13 for the seven configured directories), in *)
(* the order the failures occurred.                                        *)
(***************************************************************************)
C10_FirstFailureEndsTask ==
    /\ GhidraRaised => ~Ran(twitchbot_cmd)
    /\ AptUpdateRaised => ~Ran(apt_upgrade_cmd)
    /\ GitAddRaised => ~Ran(git_commit_cmd)
    /\ \A i \in DOMAIN TaskOrder : TimesFailed(TaskOrder[i]) <= 1
    /\ TimesFailed("backup_c_drive") = 0
    /\ ErrorsAreTheFailures
    /\ Len(errors) <= 6 + Len(BACKUP_DIRS)
    /\ \A i \in 1..(Len(failed) - 1) :
          \/ FailureRank(failed[i]) < FailureRank(failed[i + 1])
          \/ /\ failed[i].task = "backup_windows_dir"
             /\ failed[i + 1].task = "backup_windows_dir"
             /\ failed[i].arg # failed[i + 1].arg

\* Every task and every directory backup failed, each on its first
\* command: the list is full and the later commands were not run.
C10_Witness ==
    /\ Len(errors) = 6 + Len(BACKUP_DIRS)
    /\ GhidraRaised /\ ~Ran(twitchbot_cmd)
    /\ AptUpdateRaised /\ ~Ran(apt_upgrade_cmd)
    /\ errors[1].type = "str"

====
